---------------------------- MODULE Spec2Model ----------------------------
(***************************************************************************)
(* Model of drg-modio-index (src/src/main.rs): the mod.io mirror that      *)
(* upserts mod and modfile rows, downloads changed archives into mods/,    *)
(* lists the asset paths of the .pak packed in each zip and replaces the   *)
(* pack_file rows of a modfile inside a transaction.                       *)
(*                                                                         *)
(*   get_mods / update_mod          - the remote sync (GetMods command)    *)
(*   update_pack_files_local        - the local rebuild                    *)
(*   list_zip_files / list_files    - the archive indexer                  *)
(*   get_pack_files                 - the rows of one indexed archive      *)
(***************************************************************************)
EXTENDS Integers, Sequences, FiniteSets, TLC

(***************************************************************************)
(* Bounds of the model.                                                    *)
(***************************************************************************)
\* number of chunks the download stream of one archive yields
NChunks == 2
\* most components of a mount point and of a record's file name
MaxMountLen == 4
MaxAssetLen == 2
\* std::thread::available_parallelism() of the machine the rebuild runs on
Parallelism == 2

(***************************************************************************)
(* The remote catalog's data, as far as the model draws it.                *)
(***************************************************************************)
ModIds == {1, 2}
FileIds == {10, 11, 12}
Hashes == {"a", "b", "c"}

\* Option<T>: None is the empty sequence, Some(x) the sequence of x alone
None == <<>>
Some(x) == <<x>>
\* a NULL id_modfile; the catalog's ids are positive
NullId == 0
\* no file at mods/<md5>.zip
Absent == -1

\* the modfile objects the catalog serves (m.modfile when it is Some)
File10 ==
    [id |-> 10, date_added |-> 100, md5 |-> "a", filename |-> "f10.zip",
     version |-> "1.0", changelog |-> "first"]
File11 ==
    [id |-> 11, date_added |-> 200, md5 |-> "b", filename |-> "f11.zip",
     version |-> "1.1", changelog |-> "second"]
File12 ==
    [id |-> 12, date_added |-> 300, md5 |-> "c", filename |-> "f12.zip",
     version |-> "2.0", changelog |-> "third"]

FileRecords == {File10, File11, File12}

\* the current files the catalog may report for a mod; it reports file 11
\* under either mod
FilesOf(i) == IF i = 1 THEN {File10, File11} ELSE {File11, File12}

\* name, name_id, summary, description the catalog reports for a mod
TextsOf(i) ==
    IF i = 1
    THEN { [name |-> "n1", name_id |-> "s1", summary |-> "u1", description |-> "d1"] }
    ELSE { [name |-> "n2", name_id |-> "s2", summary |-> "u2", description |-> "d2"] }

\* modio::mods::Mod as update_mod reads it
ModRecords ==
    UNION { { [id |-> i, name |-> t.name, name_id |-> t.name_id,
               summary |-> t.summary, description |-> t.description, modfile |-> f] :
                t \in TextsOf(i), f \in {None} \cup {Some(r) : r \in FilesOf(i)} } :
            i \in ModIds }

(***************************************************************************)
(* Paths.  A path is a sequence of components; a component is the sequence *)
(* of the pieces between its dots, so "A.uasset" is <<"A", "uasset">> and  *)
(* ".." is <<"", "", "">>.                                                 *)
(***************************************************************************)
ParentDir == <<"", "", "">>

\* the literal "../../.." of strip_prefix
ContainmentPrefix == <<ParentDir, ParentDir, ParentDir>>

IsPrefix(p, s) == Len(p) <= Len(s) /\ \A k \in 1..Len(p) : s[k] = p[k]

\* PathBuf::new(); push(mount_point); push(asset_path), both relative
PushPath(mount_point, asset_path) == mount_point \o asset_path

\* Path::strip_prefix: Ok(rest) when base is a component-wise prefix
StripPrefix(path, base) ==
    IF IsPrefix(base, path)
    THEN [ok |-> TRUE, val |-> SubSeq(path, Len(base) + 1, Len(path))]
    ELSE [ok |-> FALSE, err |-> "StripPrefixError"]

\* Path::file_name: the last component unless it is ".."
FileName(path) ==
    IF path = <<>> \/ path[Len(path)] = ParentDir THEN None
    ELSE Some(path[Len(path)])

\* Path::extension: the piece after the last dot; None without a dot or when
\* the only dot is the leading one
Extension(path) ==
    LET n == FileName(path) IN
    IF n = None THEN None
    ELSE IF Len(n[1]) < 2 \/ (Len(n[1]) = 2 /\ n[1][1] = "") THEN None
    ELSE Some(n[1][Len(n[1])])

\* Path::file_stem: the file name without its extension
FileStem(path) ==
    LET n == FileName(path) IN
    IF n = None THEN None
    ELSE IF Extension(path) = None THEN n
    ELSE Some(SubSeq(n[1], 1, Len(n[1]) - 1))

\* file.strip_suffix(ext): the extension goes, its dot stays
PathNoExtension(path) ==
    IF Extension(path) = None THEN path
    ELSE LET n == path[Len(path)] IN
         [path EXCEPT ![Len(path)] = [n EXCEPT ![Len(n)] = ""]]

(***************************************************************************)
(* Archives.  The bytes the catalog serves for an md5: a zip whose entries *)
(* may hold a .pak with a mount point and records.                         *)
(***************************************************************************)
NoPak == [valid |-> FALSE, mount_point |-> None, records |-> <<>>]

ArchiveOf(md5) ==
    CASE md5 = "a" ->
           << [is_file |-> TRUE, pak_name |-> FALSE, pak |-> NoPak],
              [is_file |-> TRUE, pak_name |-> TRUE,
               pak |-> [valid |-> TRUE,
                        mount_point |-> Some(<<ParentDir, ParentDir, ParentDir, <<"FSD">> >>),
                        records |-> << << <<"Content">>, <<"A", "uasset">> >>,
                                       << <<"Content">>, <<"A", "uexp">> >> >>]] >>
      [] md5 = "b" ->
           << [is_file |-> TRUE, pak_name |-> TRUE,
               pak |-> [valid |-> TRUE,
                        mount_point |-> Some(<<ParentDir, ParentDir, ParentDir>>),
                        records |-> << << <<"FSD">>, <<"Mod", "umap">> >> >>]] >>
      [] OTHER ->
           << [is_file |-> TRUE, pak_name |-> FALSE, pak |-> NoPak] >>

RECURSIVE MapRecords(_, _)
\* list_files' records().iter().map(..).collect(): the first Err ends it
MapRecords(mount_point, records) ==
    IF records = <<>> THEN [ok |-> TRUE, val |-> <<>>]
    ELSE LET s == StripPrefix(PushPath(mount_point, Head(records)), ContainmentPrefix)
             rest == MapRecords(mount_point, Tail(records))
         IN  IF ~s.ok THEN s
             ELSE IF ~rest.ok THEN rest
             ELSE [ok |-> TRUE, val |-> <<s.val>> \o rest.val]

list_files(pak) ==
    IF ~pak.valid THEN [ok |-> FALSE, err |-> "ErrorReadingPak"]
    ELSE IF pak.mount_point = None THEN [ok |-> FALSE, err |-> "MissingMountPoint"]
    ELSE MapRecords(pak.mount_point[1], pak.records)

RECURSIVE FirstPak(_)
\* the loop of list_zip_files: the first entry that is a file named *.pak
FirstPak(entries) ==
    IF entries = <<>> THEN [ok |-> FALSE, err |-> "MissingPakFile"]
    ELSE IF Head(entries).is_file /\ Head(entries).pak_name
         THEN list_files(Head(entries).pak)
         ELSE FirstPak(Tail(entries))

\* list_zip_files on mods/<md5>.zip as it is on disk: d is Absent or the
\* number of chunks written; a truncated zip has no central directory
list_zip_files(d, md5) ==
    IF d = Absent THEN [ok |-> FALSE, err |-> "IoError"]
    ELSE IF d < NChunks THEN [ok |-> FALSE, err |-> "ZipError"]
    ELSE FirstPak(ArchiveOf(md5))

\* one pack_file row
PackFile(id_modfile, path) ==
    [id_modfile |-> id_modfile, path |-> path,
     path_no_extension |-> PathNoExtension(path),
     extension |-> Extension(path), name |-> FileStem(path)]

\* get_pack_files
get_pack_files(d, id_modfile, md5) ==
    LET files == list_zip_files(d, md5) IN
    IF ~files.ok THEN files
    ELSE [ok |-> TRUE,
          val |-> [k \in 1..Len(files.val) |-> PackFile(id_modfile, files.val[k])]]

(***************************************************************************)
(* State.                                                                  *)
(*   db       the committed store: tables mod, modfile and pack_file       *)
(*   tx       the open transaction's view of the store, None when none     *)
(*   disk     mods/<md5>.zip: Absent or the number of chunks written       *)
(*   pc       where the running command stands; "idle" between commands    *)
(*   mods     get_mods: the mod ids of the listing still to visit          *)
(*   m        update_mod: the remote record in hand                        *)
(*   modfile  update_mod: the id_modfile read back from the mod row        *)
(*   files    update_mod: the paths still to insert                        *)
(*   modfiles update_pack_files_local: the selected rows not yet spawned   *)
(*   tasks    update_pack_files_local: the spawned tasks not yet taken     *)
(*   id, pack_files   update_pack_files_local: the item in hand, with the  *)
(*            rows still to insert                                         *)
(*   bar      update_pack_files_local: the position of the progress bar    *)
(*   outcome  how the last command ended                                   *)
(*   pak      list_files: the pak read out of the zip entry                *)
(*   listed   list_files: what it returned, None before it ran             *)
(***************************************************************************)
VARIABLES db, tx, disk, pc, mods, m, modfile, files, modfiles, tasks, id,
          pack_files, bar, outcome, pak, listed

vars == <<db, tx, disk, pc, mods, m, modfile, files, modfiles, tasks, id,
          pack_files, bar, outcome, pak, listed>>

\* the locals of get_mods and update_mod
syncVars == <<mods, m, modfile, files>>
\* the locals of update_pack_files_local
rebuildVars == <<modfiles, tasks, id, pack_files, bar>>
\* the pak list_files reads on its own and what it returned
indexVars == <<pak, listed>>

EmptyDb ==
    [mod |-> [i \in ModIds |-> None],
     modfile |-> [f \in FileIds |-> None],
     pack_file |-> [f \in FileIds |-> <<>>]]

Init ==
    /\ db = EmptyDb
    /\ tx = None
    /\ disk = [h \in Hashes |-> Absent]
    /\ pc = "idle"
    /\ mods = <<>>
    /\ m = None
    /\ modfile = NullId
    /\ files = <<>>
    /\ modfiles = <<>>
    /\ tasks = {}
    /\ id = NullId
    /\ pack_files = <<>>
    /\ bar = 0
    /\ outcome = "none"
    /\ pak = NoPak
    /\ listed = None

\* the listings the catalog may return: each visible mod at most once, in the
\* order of the ids
Listings == {<<>>, <<1>>, <<2>>, <<1, 2>>}

(***************************************************************************)
(* The statements of update_mod, on a view t of the store.                 *)
(***************************************************************************)
\* INSERT INTO mod .. ON CONFLICT(id_mod) DO UPDATE SET ..
UpsertMod(t, r) ==
    IF t.mod[r.id] = None
    THEN [t EXCEPT !.mod[r.id] =
            Some([name |-> r.name, name_id |-> r.name_id, summary |-> r.summary,
                  description |-> r.description, id_modfile |-> NullId])]
    ELSE [t EXCEPT !.mod[r.id] =
            Some([name |-> r.name, name_id |-> r.name_id, summary |-> r.summary,
                  description |-> r.summary,
                  id_modfile |-> t.mod[r.id][1].id_modfile])]

\* faulty variant: the read-back always finds NULL
SelectModfileNull(t, id_mod) == NullId

\* SELECT id_modfile FROM mod WHERE id_mod = ?
SelectModfile(t, id_mod) == t.mod[id_mod][1].id_modfile

\* DateTime::from_utc(NaiveDateTime::from_timestamp_opt(..)).to_rfc3339()
ToRfc3339(secs) == <<"rfc3339", secs>>

\* faulty variant: the file's id is bound where id_mod belongs
UpsertModfileWrongOwner(t, id_mod, file) ==
    [t EXCEPT !.modfile[file.id] =
        Some([id_mod |-> file.id, date_added |-> ToRfc3339(file.date_added),
              hash_md5 |-> file.md5, filename |-> file.filename,
              version |-> file.version, changelog |-> file.changelog])]

\* INSERT INTO modfile .. ON CONFLICT(id_modfile) DO UPDATE SET ..
UpsertModfile(t, id_mod, file) ==
    [t EXCEPT !.modfile[file.id] =
        Some([id_mod |-> id_mod, date_added |-> ToRfc3339(file.date_added),
              hash_md5 |-> file.md5, filename |-> file.filename,
              version |-> file.version, changelog |-> file.changelog])]

\* UPDATE mod SET id_modfile = ? WHERE id_mod = ?
SetModfile(t, id_mod, id_modfile) ==
    [t EXCEPT !.mod[id_mod] = Some([t.mod[id_mod][1] EXCEPT !.id_modfile = id_modfile])]

\* faulty variant: the DELETE has no WHERE
DeleteAllPackFiles(t, id_modfile) == [t EXCEPT !.pack_file = [f \in FileIds |-> <<>>]]

\* DELETE FROM pack_file WHERE id_modfile = ?
DeletePackFiles(t, id_modfile) == [t EXCEPT !.pack_file[id_modfile] = <<>>]

\* INSERT INTO pack_file(..) VALUES (..)
InsertPackFile(t, row) ==
    [t EXCEPT !.pack_file[row.id_modfile] = Append(@, row)]

\* m.modfile.as_ref().map(|f| f.id), with None as the NULL id
RemoteFileId(r) == IF r.modfile = None THEN NullId ELSE r.modfile[1].id

(***************************************************************************)
(* How a command ends.                                                     *)
(***************************************************************************)
\* the locals go, and an open transaction is dropped, which rolls it back
Return(how) ==
    /\ pc' = "idle"
    /\ tx' = None
    /\ mods' = <<>>
    /\ m' = None
    /\ modfile' = NullId
    /\ files' = <<>>
    /\ modfiles' = <<>>
    /\ tasks' = {}
    /\ id' = NullId
    /\ pack_files' = <<>>
    /\ bar' = 0
    /\ outcome' = how
    /\ UNCHANGED indexVars

(***************************************************************************)
(* get_mods                                                                *)
(***************************************************************************)
\* modio.game(drg).mods().search(filter).collect()
GetMods ==
    /\ pc = "idle"
    /\ \E l \in Listings : mods' = l
    /\ pc' = "gm_loop"
    /\ outcome' = "none"
    /\ UNCHANGED <<indexVars, db, tx, disk, m, modfile, files, rebuildVars>>

\* the listing cannot be fetched: collect().await? returns the error
GetModsSearchFails ==
    /\ pc = "idle"
    /\ Return("transport")
    /\ UNCHANGED <<db, disk>>

\* for m in mods: the next record of the listing goes to update_mod
GetModsNext ==
    /\ pc = "gm_loop"
    /\ mods # <<>>
    /\ \E r \in ModRecords : r.id = Head(mods) /\ m' = Some(r)
    /\ mods' = Tail(mods)
    /\ pc' = "um_begin"
    /\ UNCHANGED <<indexVars, db, tx, disk, modfile, files, outcome, rebuildVars>>

\* the loop is over: mod_bar.finish(); Ok(())
GetModsDone ==
    /\ pc = "gm_loop"
    /\ mods = <<>>
    /\ Return("ok")
    /\ UNCHANGED <<db, disk>>

(***************************************************************************)
(* update_mod                                                              *)
(***************************************************************************)
\* let mut tx = pool.begin().await?
UmBegin ==
    /\ pc = "um_begin"
    /\ tx' = Some(db)
    /\ pc' = "um_upsert_mod"
    /\ UNCHANGED <<indexVars, db, disk, mods, m, modfile, files, outcome, rebuildVars>>

UmUpsertMod ==
    /\ pc = "um_upsert_mod"
    /\ tx' = Some(UpsertMod(tx[1], m[1]))
    /\ pc' = "um_select"
    /\ UNCHANGED <<indexVars, db, disk, mods, m, modfile, files, outcome, rebuildVars>>

\* the read-back of id_modfile and the comparison with the remote file id
UmSelect ==
    /\ pc = "um_select"
    /\ modfile' = SelectModfile(tx[1], m[1].id)
    /\ pc' = IF RemoteFileId(m[1]) # modfile'
             THEN IF m[1].modfile # None THEN "um_upsert_file" ELSE "um_clear"
             ELSE "um_commit"
    /\ UNCHANGED <<indexVars, db, tx, disk, mods, m, files, outcome, rebuildVars>>

UmUpsertModfile ==
    /\ pc = "um_upsert_file"
    /\ tx' = Some(UpsertModfile(tx[1], m[1].id, m[1].modfile[1]))
    /\ pc' = "um_set_modfile"
    /\ UNCHANGED <<indexVars, db, disk, mods, m, modfile, files, outcome, rebuildVars>>

\* faulty variant: the archive is taken to be there, nothing is downloaded
UmSetModfileNoDownload ==
    /\ pc = "um_set_modfile"
    /\ tx' = Some(SetModfile(tx[1], m[1].id, m[1].modfile[1].id))
    /\ pc' = "um_delete"
    /\ UNCHANGED <<indexVars, db, disk, mods, m, modfile, files, outcome, rebuildVars>>

\* UPDATE mod SET id_modfile = ?, then the test of Path::exists
UmSetModfile ==
    /\ pc = "um_set_modfile"
    /\ tx' = Some(SetModfile(tx[1], m[1].id, m[1].modfile[1].id))
    /\ pc' = IF disk[m[1].modfile[1].md5] = Absent THEN "um_open" ELSE "um_delete"
    /\ UNCHANGED <<indexVars, db, disk, mods, m, modfile, files, outcome, rebuildVars>>

\* OpenOptions::new().write(true).create(true).truncate(true).open(&path)
UmOpen ==
    /\ pc = "um_open"
    /\ disk' = [disk EXCEPT ![m[1].modfile[1].md5] = 0]
    /\ pc' = "um_stream"
    /\ UNCHANGED <<indexVars, db, tx, mods, m, modfile, files, outcome, rebuildVars>>

\* stream.try_next() yields a chunk, and write_all appends it
UmWriteChunk ==
    /\ pc = "um_stream"
    /\ disk[m[1].modfile[1].md5] < NChunks
    /\ disk' = [disk EXCEPT ![m[1].modfile[1].md5] = @ + 1]
    /\ UNCHANGED <<indexVars, db, tx, pc, mods, m, modfile, files, outcome, rebuildVars>>

\* stream.try_next() yields None: the download is complete
UmStreamEnd ==
    /\ pc = "um_stream"
    /\ disk[m[1].modfile[1].md5] = NChunks
    /\ pc' = "um_delete"
    /\ UNCHANGED <<indexVars, db, tx, disk, mods, m, modfile, files, outcome, rebuildVars>>

\* faulty variant: the DELETE runs on the pool, outside the transaction
UmDeleteOnPool ==
    /\ pc = "um_delete"
    /\ db' = DeletePackFiles(db, m[1].modfile[1].id)
    /\ tx' = Some(DeletePackFiles(tx[1], m[1].modfile[1].id))
    /\ pc' = "um_index"
    /\ UNCHANGED <<indexVars, disk, mods, m, modfile, files, outcome, rebuildVars>>

UmDelete ==
    /\ pc = "um_delete"
    /\ tx' = Some(DeletePackFiles(tx[1], m[1].modfile[1].id))
    /\ pc' = "um_index"
    /\ UNCHANGED <<indexVars, db, disk, mods, m, modfile, files, outcome, rebuildVars>>

\* faulty variant: list_zip_files(&path)? returns the indexing error
UmIndexPropagates ==
    /\ pc = "um_index"
    /\ LET res == list_zip_files(disk[m[1].modfile[1].md5], m[1].modfile[1].md5)
       IN  IF res.ok
           THEN /\ files' = res.val
                /\ pc' = "um_insert"
                /\ UNCHANGED <<indexVars, db, tx, disk, mods, m, modfile, outcome, rebuildVars>>
           ELSE /\ Return("io")
                /\ UNCHANGED <<db, disk>>

\* let res = list_zip_files(&path); an Err is printed and nothing is inserted
\* (the progress sink multi_bar is taken not to fail)
UmIndex ==
    /\ pc = "um_index"
    /\ LET res == list_zip_files(disk[m[1].modfile[1].md5], m[1].modfile[1].md5)
       IN  files' = IF res.ok THEN res.val ELSE <<>>
    /\ pc' = "um_insert"
    /\ UNCHANGED <<indexVars, db, tx, disk, mods, m, modfile, outcome, rebuildVars>>

\* for file in files: INSERT INTO pack_file
UmInsert ==
    /\ pc = "um_insert"
    /\ files # <<>>
    /\ tx' = Some(InsertPackFile(tx[1], PackFile(m[1].modfile[1].id, Head(files))))
    /\ files' = Tail(files)
    /\ UNCHANGED <<indexVars, db, disk, pc, mods, m, modfile, outcome, rebuildVars>>

UmInsertDone ==
    /\ pc = "um_insert"
    /\ files = <<>>
    /\ pc' = "um_commit"
    /\ UNCHANGED <<indexVars, db, tx, disk, mods, m, modfile, files, outcome, rebuildVars>>

\* faulty variant: the branch for a mod without a file does nothing
UmClearSkipped ==
    /\ pc = "um_clear"
    /\ pc' = "um_commit"
    /\ UNCHANGED <<indexVars, db, tx, disk, mods, m, modfile, files, outcome, rebuildVars>>

\* UPDATE mod SET id_modfile = NULL WHERE id_mod = ?
UmClear ==
    /\ pc = "um_clear"
    /\ tx' = Some(SetModfile(tx[1], m[1].id, NullId))
    /\ pc' = "um_commit"
    /\ UNCHANGED <<indexVars, db, disk, mods, m, modfile, files, outcome, rebuildVars>>

\* tx.commit().await?; Ok(()): back in the loop of get_mods, mod_bar.inc(1)
UmCommit ==
    /\ pc = "um_commit"
    /\ db' = tx[1]
    /\ tx' = None
    /\ m' = None
    /\ modfile' = NullId
    /\ pc' = "gm_loop"
    /\ UNCHANGED <<indexVars, disk, mods, files, outcome, rebuildVars>>

\* the places of update_mod
UmPcs ==
    {"um_begin", "um_upsert_mod", "um_select", "um_upsert_file", "um_set_modfile",
     "um_open", "um_stream", "um_delete", "um_index", "um_insert", "um_clear",
     "um_commit"}

\* the places that await a statement of the store
UmStorePcs ==
    {"um_begin", "um_upsert_mod", "um_select", "um_upsert_file", "um_set_modfile",
     "um_delete", "um_insert", "um_clear", "um_commit"}

\* a statement of the store fails: update_mod returns the error through ?,
\* and get_mods returns it through update_mod(..).await?
UmStoreError ==
    /\ pc \in UmStorePcs
    /\ pc = "um_insert" => files # <<>>
    /\ Return("store")
    /\ UNCHANGED <<db, disk>>

\* stream.try_next().await? fails
UmTransportError ==
    /\ pc = "um_stream"
    /\ Return("transport")
    /\ UNCHANGED <<db, disk>>

\* open(&path).await? or write_all(&bytes).await? fails
UmIoError ==
    /\ \/ pc = "um_open"
       \/ pc = "um_stream" /\ disk[m[1].modfile[1].md5] < NChunks
    /\ Return("io")
    /\ UNCHANGED <<db, disk>>

(***************************************************************************)
(* update_pack_files_local                                                 *)
(***************************************************************************)
RECURSIVE ModfileRows(_, _)
\* SELECT id_modfile, hash_md5 FROM modfile, in the order of the key
ModfileRows(t, ids) ==
    IF ids = {} THEN <<>>
    ELSE LET f == CHOOSE x \in ids : \A y \in ids : x <= y
             rest == ModfileRows(t, ids \ {f})
         IN  IF t.modfile[f] = None THEN rest
             ELSE <<[id_modfile |-> f, hash_md5 |-> t.modfile[f][1].hash_md5]>> \o rest

\* the UpdateModFilesLocal command starts
UpdatePackFilesLocal ==
    /\ pc = "idle"
    /\ pc' = "rb_select"
    /\ outcome' = "none"
    /\ UNCHANGED <<indexVars, db, tx, disk, syncVars, rebuildVars>>

\* fetch_all(pool) of the modfile rows
RbSelect ==
    /\ pc = "rb_select"
    /\ modfiles' = ModfileRows(db, FileIds)
    /\ pc' = "rb_prepare"
    /\ UNCHANGED <<indexVars, db, tx, disk, syncVars, tasks, id, pack_files, bar, outcome>>

\* pool.prepare of the delete and of the insert
RbPrepare ==
    /\ pc = "rb_prepare"
    /\ pc' = "rb_next"
    /\ UNCHANGED <<indexVars, db, tx, disk, syncVars, rebuildVars, outcome>>

\* faulty variant: every spawn_blocking is pulled at once
RbSpawnUnbounded ==
    /\ pc = "rb_next"
    /\ modfiles # <<>>
    /\ tasks' = tasks \cup {[id_modfile |-> Head(modfiles).id_modfile,
                             hash_md5 |-> Head(modfiles).hash_md5,
                             done |-> FALSE,
                             result |-> [ok |-> FALSE, err |-> "running"]]}
    /\ modfiles' = Tail(modfiles)
    /\ UNCHANGED <<indexVars, db, tx, disk, pc, syncVars, id, pack_files, bar, outcome>>

\* stream.next(): buffer_unordered pulls the next spawn_blocking while fewer
\* than available_parallelism() tasks are in flight
RbSpawn ==
    /\ pc = "rb_next"
    /\ modfiles # <<>>
    /\ Cardinality(tasks) < Parallelism
    /\ tasks' = tasks \cup {[id_modfile |-> Head(modfiles).id_modfile,
                             hash_md5 |-> Head(modfiles).hash_md5,
                             done |-> FALSE,
                             result |-> [ok |-> FALSE, err |-> "running"]]}
    /\ modfiles' = Tail(modfiles)
    /\ UNCHANGED <<indexVars, db, tx, disk, pc, syncVars, id, pack_files, bar, outcome>>

\* faulty variant: the blocking thread deletes the rows of its modfile itself
WorkerRunWrites ==
    /\ \E t \in tasks :
         /\ ~t.done
         /\ tasks' = (tasks \ {t}) \cup
                {[t EXCEPT !.done = TRUE,
                           !.result = get_pack_files(disk[t.hash_md5], t.id_modfile,
                                                     t.hash_md5)]}
         /\ db' = DeletePackFiles(db, t.id_modfile)
    /\ UNCHANGED <<indexVars, tx, disk, pc, syncVars, modfiles, id, pack_files, bar, outcome>>

\* a blocking thread runs get_pack_files for its modfile
WorkerRun ==
    /\ \E t \in tasks :
         /\ ~t.done
         /\ tasks' = (tasks \ {t}) \cup
                {[t EXCEPT !.done = TRUE,
                           !.result = get_pack_files(disk[t.hash_md5], t.id_modfile,
                                                     t.hash_md5)]}
    /\ UNCHANGED <<indexVars, db, tx, disk, pc, syncVars, modfiles, id, pack_files, bar, outcome>>

\* faulty variant: the progress bar is not advanced for a failed task
RbTakeNoInc ==
    /\ pc = "rb_next"
    /\ modfiles = <<>> \/ Cardinality(tasks) = Parallelism
    /\ \E t \in tasks :
         /\ t.done
         /\ tasks' = tasks \ {t}
         /\ IF t.result.ok
            THEN /\ id' = t.id_modfile
                 /\ pack_files' = t.result.val
                 /\ pc' = "rb_begin"
            ELSE /\ id' = NullId
                 /\ pack_files' = <<>>
                 /\ pc' = "rb_next"
    /\ UNCHANGED <<indexVars, db, tx, disk, syncVars, modfiles, bar, outcome>>

\* faulty variant: the error of a finished task is returned through ?
RbTakePropagates ==
    /\ pc = "rb_next"
    /\ modfiles = <<>> \/ Cardinality(tasks) = Parallelism
    /\ \E t \in tasks :
         /\ t.done
         /\ IF t.result.ok
            THEN /\ tasks' = tasks \ {t}
                 /\ id' = t.id_modfile
                 /\ pack_files' = t.result.val
                 /\ pc' = "rb_begin"
                 /\ bar' = bar
                 /\ UNCHANGED <<indexVars, db, tx, disk, syncVars, modfiles, outcome>>
            ELSE /\ Return("io")
                 /\ UNCHANGED <<db, disk>>

\* stream.next() yields a finished task, whichever finished: its rows go to
\* the transaction, its error is printed
RbTake ==
    /\ pc = "rb_next"
    /\ modfiles = <<>> \/ Cardinality(tasks) = Parallelism
    /\ \E t \in tasks :
         /\ t.done
         /\ tasks' = tasks \ {t}
         /\ IF t.result.ok
            THEN /\ id' = t.id_modfile
                 /\ pack_files' = t.result.val
                 /\ pc' = "rb_begin"
                 /\ bar' = bar
            ELSE /\ id' = NullId
                 /\ pack_files' = <<>>
                 /\ pc' = "rb_next"
                 /\ bar' = bar + 1
    /\ UNCHANGED <<indexVars, db, tx, disk, syncVars, modfiles, outcome>>

\* let mut tx = pool.begin().await?
RbBegin ==
    /\ pc = "rb_begin"
    /\ tx' = Some(db)
    /\ pc' = "rb_delete"
    /\ UNCHANGED <<indexVars, db, disk, syncVars, rebuildVars, outcome>>

\* faulty variant: the rows of the modfile are not deleted first
RbDeleteSkipped ==
    /\ pc = "rb_delete"
    /\ pc' = "rb_insert"
    /\ UNCHANGED <<indexVars, db, tx, disk, syncVars, rebuildVars, outcome>>

RbDelete ==
    /\ pc = "rb_delete"
    /\ tx' = Some(DeletePackFiles(tx[1], id))
    /\ pc' = "rb_insert"
    /\ UNCHANGED <<indexVars, db, disk, syncVars, rebuildVars, outcome>>

\* faulty variant: each INSERT runs on the pool and is committed at once
RbInsertOnPool ==
    /\ pc = "rb_insert"
    /\ pack_files # <<>>
    /\ db' = InsertPackFile(db, Head(pack_files))
    /\ tx' = Some(InsertPackFile(tx[1], Head(pack_files)))
    /\ pack_files' = Tail(pack_files)
    /\ UNCHANGED <<indexVars, disk, pc, syncVars, modfiles, tasks, id, bar, outcome>>

RbInsert ==
    /\ pc = "rb_insert"
    /\ pack_files # <<>>
    /\ tx' = Some(InsertPackFile(tx[1], Head(pack_files)))
    /\ pack_files' = Tail(pack_files)
    /\ UNCHANGED <<indexVars, db, disk, pc, syncVars, modfiles, tasks, id, bar, outcome>>

RbInsertDone ==
    /\ pc = "rb_insert"
    /\ pack_files = <<>>
    /\ pc' = "rb_commit"
    /\ UNCHANGED <<indexVars, db, tx, disk, syncVars, rebuildVars, outcome>>

\* tx.commit().await?; bar.inc(1)
RbCommit ==
    /\ pc = "rb_commit"
    /\ db' = tx[1]
    /\ tx' = None
    /\ id' = NullId
    /\ bar' = bar + 1
    /\ pc' = "rb_next"
    /\ UNCHANGED <<indexVars, disk, syncVars, modfiles, tasks, pack_files, outcome>>

\* stream.next() yields None: bar.finish(); Ok(())
RbDone ==
    /\ pc = "rb_next"
    /\ modfiles = <<>>
    /\ tasks = {}
    /\ Return("ok")
    /\ UNCHANGED <<db, disk>>

RbStorePcs == {"rb_select", "rb_prepare", "rb_begin", "rb_delete", "rb_insert", "rb_commit"}

\* a statement of the store fails: update_pack_files_local returns the
\* error through ?
RbStoreError ==
    /\ pc \in RbStorePcs
    /\ pc = "rb_insert" => pack_files # <<>>
    /\ Return("store")
    /\ UNCHANGED <<db, disk>>

\* the process is killed: nothing of an open transaction is committed
Crash ==
    /\ pc # "idle"
    /\ Return("crash")
    /\ UNCHANGED <<db, disk>>

Next ==
    \/ GetMods
    \/ GetModsSearchFails
    \/ GetModsNext
    \/ GetModsDone
    \/ UmBegin
    \/ UmUpsertMod
    \/ UmSelect
    \/ UmUpsertModfile
    \/ UmSetModfile
    \/ UmOpen
    \/ UmWriteChunk
    \/ UmStreamEnd
    \/ UmDelete
    \/ UmIndex
    \/ UmInsert
    \/ UmInsertDone
    \/ UmClear
    \/ UmCommit
    \/ UmStoreError
    \/ UmTransportError
    \/ UmIoError
    \/ UpdatePackFilesLocal
    \/ RbSelect
    \/ RbPrepare
    \/ RbSpawn
    \/ WorkerRun
    \/ RbTake
    \/ RbBegin
    \/ RbDelete
    \/ RbInsert
    \/ RbInsertDone
    \/ RbCommit
    \/ RbDone
    \/ RbStoreError
    \/ Crash

Spec == Init /\ [][Next]_vars

(***************************************************************************)
(* What the claims speak of.                                               *)
(***************************************************************************)
ErrorOutcomes == {"store", "transport", "io"}

\* update_mod is running on record m[1]
InUpdateMod == pc \in UmPcs

\* this step is the commit of update_mod
UmCommits == pc = "um_commit" /\ pc' = "gm_loop"

\* the current_file_id the store held for the mod in hand when update_mod began
StoredFileId ==
    IF db.mod[m[1].id] = None THEN NullId ELSE db.mod[m[1].id][1].id_modfile

\* the rows a successful indexing pass over the archive md5 can give file f
SuccessfulPasses(f, md5) ==
    { get_pack_files(d, f, md5).val :
        d \in {e \in 0..NChunks : get_pack_files(e, f, md5).ok} }

\* the modfile row update_mod writes for the file of record r
ModfileRowOf(r) ==
    [id_mod |-> r.id, date_added |-> ToRfc3339(r.modfile[1].date_added),
     hash_md5 |-> r.modfile[1].md5, filename |-> r.modfile[1].filename,
     version |-> r.modfile[1].version, changelog |-> r.modfile[1].changelog]

\* the mods under which the catalog reports file id f
OwnersOf(f) == {i \in ModIds : \E r \in FilesOf(i) : r.id = f}

(***************************************************************************)
(* C1.  A failure of update_mod for one mod does not abort get_mods: when  *)
(* mods of the listing remain, the loop goes on with them.  The code       *)
(* returns the error from get_mods at once.                                *)
(***************************************************************************)
C1_FailureDoesNotAbortBatch ==
    [][(InUpdateMod /\ mods # <<>> /\ outcome' \in ErrorOutcomes)
          => (pc' = "gm_loop" /\ mods' = mods)]_vars

(***************************************************************************)
(* C2.  In every committed state the pack_file rows of a modfile are empty *)
(* or exactly the rows of one successful indexing pass over its archive.   *)
(***************************************************************************)
C2_SnapshotEmptyOrComplete ==
    \A f \in FileIds :
        \/ db.pack_file[f] = <<>>
        \/ /\ db.modfile[f] # None
           /\ db.pack_file[f] \in SuccessfulPasses(f, db.modfile[f][1].hash_md5)

\* the rebuild has inserted one of the two rows of file 10 in its
\* transaction while the committed snapshot is the complete one
C2_Witness ==
    /\ pc = "rb_insert"
    /\ Len(tx[1].pack_file[10]) = 1
    /\ Len(db.pack_file[10]) = 2

(***************************************************************************)
(* C3.  update_mod on a record whose current file id equals the stored     *)
(* id_modfile downloads nothing and touches no pack_file row, neither in   *)
(* its transaction nor in the committed store.                             *)
(***************************************************************************)
StoredEqualsRemote ==
    /\ InUpdateMod
    /\ db.mod[m[1].id] # None
    /\ StoredFileId = RemoteFileId(m[1])

C3_UnchangedFileNoWork ==
    [][StoredEqualsRemote
          => /\ disk' = disk
             /\ pc' \notin {"um_open", "um_stream"}
             /\ db'.pack_file = db.pack_file
             /\ tx' # None => tx'[1].pack_file = db.pack_file]_vars

\* the second run on mod 1 with file 10 unchanged and indexed stands at its
\* commit
C3_Witness ==
    /\ pc = "um_commit"
    /\ StoredEqualsRemote
    /\ RemoteFileId(m[1]) = 10
    /\ Len(db.pack_file[10]) = 2
    /\ disk["a"] = NChunks

(***************************************************************************)
(* C4.  After a download that failed with part of the archive written, a   *)
(* later update_mod for the same file downloads it afresh, so the archive  *)
(* that is indexed is the complete one.  The code skips the download when  *)
(* the path exists.                                                        *)
(***************************************************************************)
C4_IndexedArchiveIsComplete ==
    (pc = "um_index" /\ disk[m[1].modfile[1].md5] > 0)
        => disk[m[1].modfile[1].md5] = NChunks

(***************************************************************************)
(* C5.  When the current file of a mod changes from A to another file B,   *)
(* the committed update_mod writes the modfile row of B, points the mod at *)
(* B, replaces the pack_file rows of B and leaves the modfile row and the  *)
(* pack_file rows of every other file as they were.                        *)
(***************************************************************************)
FileChanges ==
    /\ InUpdateMod
    /\ StoredFileId # NullId
    /\ RemoteFileId(m[1]) # NullId
    /\ RemoteFileId(m[1]) # StoredFileId

C5_FileChangeFrame ==
    [][(UmCommits /\ FileChanges)
          => LET B == RemoteFileId(m[1]) IN
             /\ db'.modfile[B] = Some(ModfileRowOf(m[1]))
             /\ db'.mod[m[1].id][1].id_modfile = B
             /\ db'.pack_file[B] \in {<<>>} \cup SuccessfulPasses(B, m[1].modfile[1].md5)
             /\ \A f \in FileIds \ {B} :
                    /\ db'.modfile[f] = db.modfile[f]
                    /\ db'.pack_file[f] = db.pack_file[f]]_vars

\* mod 1 goes from file 10, indexed, to file 11, whose row is in the
\* transaction about to commit
C5_Witness ==
    /\ pc = "um_commit"
    /\ FileChanges
    /\ StoredFileId = 10
    /\ RemoteFileId(m[1]) = 11
    /\ Len(db.pack_file[10]) = 2
    /\ Len(tx[1].pack_file[11]) = 1

(***************************************************************************)
(* C6.  When the remote mod has no current file and the stored id_modfile  *)
(* is set, update_mod downloads nothing, changes no modfile row and no     *)
(* pack_file row, and its commit clears the id_modfile of the mod.         *)
(***************************************************************************)
FileRemoved ==
    /\ InUpdateMod
    /\ m[1].modfile = None
    /\ StoredFileId # NullId

C6_FileRemovedClears ==
    [][FileRemoved
          => /\ disk' = disk
             /\ db'.modfile = db.modfile
             /\ db'.pack_file = db.pack_file
             /\ tx' # None => /\ tx'[1].modfile = db.modfile
                              /\ tx'[1].pack_file = db.pack_file
             /\ UmCommits => db'.mod[m[1].id][1].id_modfile = NullId]_vars

\* mod 1, stored with file 10 and its rows, is synced with no current file
C6_Witness ==
    /\ pc = "um_commit"
    /\ FileRemoved
    /\ StoredFileId = 10
    /\ Len(db.pack_file[10]) = 2
    /\ tx[1].mod[m[1].id][1].id_modfile = NullId

(***************************************************************************)
(* C7.  A failure of list_zip_files in update_mod is not an error of       *)
(* update_mod: the step goes on to the commit, which stores the mod row,   *)
(* the modfile row and the id_modfile pointing at it, with no pack_file    *)
(* row for the file, and get_mods continues.                               *)
(***************************************************************************)
IndexFails ==
    /\ InUpdateMod
    /\ m[1].modfile # None
    /\ RemoteFileId(m[1]) # StoredFileId
    /\ ~list_zip_files(disk[m[1].modfile[1].md5], m[1].modfile[1].md5).ok

C7_IndexFailureStillCommits ==
    [][/\ (pc = "um_index" /\ outcome' # "crash") => pc' = "um_insert"
       /\ (pc = "um_insert" /\ IndexFails /\ outcome' # "crash") => pc' = "um_commit"
       /\ (UmCommits /\ IndexFails)
            => /\ db'.mod[m[1].id] # None
               /\ db'.mod[m[1].id][1].id_modfile = RemoteFileId(m[1])
               /\ db'.modfile[RemoteFileId(m[1])] = Some(ModfileRowOf(m[1]))
               /\ db'.pack_file[RemoteFileId(m[1])] = <<>>
               /\ outcome' \notin ErrorOutcomes]_vars

\* mod 2 gets file 12, whose downloaded archive holds no .pak
C7_Witness ==
    /\ pc = "um_commit"
    /\ IndexFails
    /\ RemoteFileId(m[1]) = 12
    /\ disk["c"] = NChunks
    /\ tx[1].mod[2][1].id_modfile = 12
    /\ tx[1].pack_file[12] = <<>>

(***************************************************************************)
(* C8.  No step of update_mod but its commit changes the committed store:  *)
(* when it is killed or returns an error, also after the delete and amid   *)
(* the inserts, the store is as it was before the call.                    *)
(***************************************************************************)
C8_NothingVisibleBeforeCommit ==
    [][(InUpdateMod /\ ~UmCommits) => db' = db]_vars

\* update_mod re-indexes file 10: the delete and one of the two inserts are
\* done in the transaction, the committed snapshot still has both rows
C8_Witness ==
    /\ pc = "um_insert"
    /\ RemoteFileId(m[1]) = 10
    /\ Len(files) = 1
    /\ Len(tx[1].pack_file[10]) = 1
    /\ Len(db.pack_file[10]) = 2

(***************************************************************************)
(* C9.  After a committed update_mod the mod row's name, name_id, summary  *)
(* and description equal those of the remote record, for a new row and for *)
(* an existing one.  The ON CONFLICT branch sets description to            *)
(* excluded.summary.                                                       *)
(***************************************************************************)
C9_ModRowEqualsRemote ==
    [][UmCommits
          => /\ db'.mod[m[1].id] # None
             /\ db'.mod[m[1].id][1].name = m[1].name
             /\ db'.mod[m[1].id][1].name_id = m[1].name_id
             /\ db'.mod[m[1].id][1].summary = m[1].summary
             /\ db'.mod[m[1].id][1].description = m[1].description]_vars

(***************************************************************************)
(* C10.  In every committed state a mod whose id_modfile is set references *)
(* an existing modfile row whose id_mod is the mod's id.  As stated, for   *)
(* any remote records, it fails when the catalog reports one file under    *)
(* two mods; it holds for the files reported under one mod only.           *)
(***************************************************************************)
C10_CurrentFileOwnedByMod ==
    \A i \in ModIds :
        (db.mod[i] # None /\ db.mod[i][1].id_modfile # NullId)
            => /\ db.modfile[db.mod[i][1].id_modfile] # None
               /\ db.modfile[db.mod[i][1].id_modfile][1].id_mod = i

C10_CurrentFileExistsAndOwned ==
    \A i \in ModIds :
        (db.mod[i] # None /\ db.mod[i][1].id_modfile # NullId)
            => LET f == db.mod[i][1].id_modfile IN
               /\ db.modfile[f] # None
               /\ OwnersOf(f) = {i} => db.modfile[f][1].id_mod = i

\* both mods point at files of their own, the shared file 11 also stored
C10_Witness ==
    /\ pc = "idle"
    /\ db.mod[1] # None /\ db.mod[1][1].id_modfile = 10
    /\ db.mod[2] # None /\ db.mod[2][1].id_modfile = 12
    /\ db.modfile[11] # None
    /\ db.modfile[10] # None /\ db.modfile[10][1].id_mod = 1

(***************************************************************************)
(* C15.  No transaction is open while update_mod downloads an archive.     *)
(* The code begins its transaction first and streams the download inside   *)
(* it.                                                                     *)
(***************************************************************************)
Downloading == pc \in {"um_open", "um_stream"}

C15_NoTransactionWhileDownloading == Downloading => tx = None

(***************************************************************************)
(* C19.  In every committed state a mod whose id_modfile is set points at  *)
(* a modfile whose archive mods/<hash_md5>.zip exists; an update_mod whose *)
(* download failed has not moved the id_modfile.                           *)
(***************************************************************************)
C19_CurrentFileHasArchive ==
    \A i \in ModIds :
        (db.mod[i] # None /\ db.mod[i][1].id_modfile # NullId)
            => /\ db.modfile[db.mod[i][1].id_modfile] # None
               /\ disk[db.modfile[db.mod[i][1].id_modfile][1].hash_md5] # Absent

\* the download of archive a failed with one chunk written and get_mods
\* ended: mod 2 still points at file 11, no mod points at file 10
C19_Witness ==
    /\ pc = "idle"
    /\ outcome = "transport"
    /\ disk["a"] = 1
    /\ db.mod[1] # None /\ db.mod[1][1].id_modfile = 11
    /\ db.mod[2] # None /\ db.mod[2][1].id_modfile = 11
    /\ disk["b"] = NChunks

(***************************************************************************)
(* The rebuild on its own.  It starts from a store an earlier sync left    *)
(* and from the mods/ directory as it is found: the archive of a modfile   *)
(* that was indexed is complete or has been removed since, the archive of  *)
(* one that was not may also be part-written.                              *)
(***************************************************************************)
\* the record under which the sync stored file f
SyncedRecord(f) ==
    LET i == IF f = 12 THEN 2 ELSE 1
        t == CHOOSE x \in TextsOf(i) : TRUE
        r == CHOOSE x \in FileRecords : x.id = f
    IN  [id |-> i, name |-> t.name, name_id |-> t.name_id, summary |-> t.summary,
         description |-> t.description, modfile |-> Some(r)]

RECURSIVE InsertAll(_, _)
\* the inserts of one indexing pass
InsertAll(t, rows) ==
    IF rows = <<>> THEN t ELSE InsertAll(InsertPackFile(t, Head(rows)), Tail(rows))

\* the store after update_mod committed record r, its archive indexed or not
AfterSync(t, r, indexed) ==
    LET file == r.modfile[1]
        t1 == DeletePackFiles(
                  SetModfile(UpsertModfile(UpsertMod(t, r), r.id, file), r.id, file.id),
                  file.id)
    IN  IF indexed THEN InsertAll(t1, get_pack_files(NChunks, file.id, file.md5).val)
        ELSE t1

RECURSIVE SyncedStore(_, _, _)
\* the store after the files of S were synced in the order of their ids,
\* those of I indexed
SyncedStore(t, S, I) ==
    IF S = {} THEN t
    ELSE LET f == CHOOSE x \in S : \A y \in S : x <= y
         IN  SyncedStore(AfterSync(t, SyncedRecord(f), f \in I), S \ {f}, I)

\* the files whose complete archive indexes
Indexable == {f \in FileIds :
                 LET r == CHOOSE x \in FileRecords : x.id = f
                 IN  get_pack_files(NChunks, f, r.md5).ok}

InitRebuild ==
    /\ \E S \in SUBSET FileIds : \E I \in SUBSET (S \cap Indexable) :
         /\ db = SyncedStore(EmptyDb, S, I)
         /\ disk \in [Hashes -> {Absent} \cup 0..NChunks]
         /\ \A f \in I : disk[db.modfile[f][1].hash_md5] \in {Absent, NChunks}
    /\ tx = None
    /\ pc = "idle"
    /\ mods = <<>>
    /\ m = None
    /\ modfile = NullId
    /\ files = <<>>
    /\ modfiles = <<>>
    /\ tasks = {}
    /\ id = NullId
    /\ pack_files = <<>>
    /\ bar = 0
    /\ outcome = "none"
    /\ pak = NoPak
    /\ listed = None

NextRebuild ==
    \/ UpdatePackFilesLocal
    \/ RbSelect
    \/ RbPrepare
    \/ RbSpawn
    \/ WorkerRun
    \/ RbTake
    \/ RbBegin
    \/ RbDelete
    \/ RbInsert
    \/ RbInsertDone
    \/ RbCommit
    \/ RbDone
    \/ RbStoreError
    \/ Crash

SpecRebuild == InitRebuild /\ [][NextRebuild]_vars

(***************************************************************************)
(* What the claims about the rebuild speak of.                             *)
(***************************************************************************)
\* modfile f has a row in the store
HasFileRow(f) == db.modfile[f] # None

\* what indexing the archive of modfile f gives now
FreshIndex(f) ==
    get_pack_files(disk[db.modfile[f][1].hash_md5], f, db.modfile[f][1].hash_md5)

\* this step is the Ok(()) of update_pack_files_local
RbFinishes == pc = "rb_next" /\ pc' = "idle" /\ outcome' = "ok"

\* this step is the coordinator receiving the error of a finished task
TakesFailed ==
    /\ pc = "rb_next"
    /\ outcome' # "crash"
    /\ \E t \in tasks : t.done /\ ~t.result.ok /\ t \notin tasks'

\* this step is a blocking thread finishing its task
WorkerSteps == pc' = pc /\ \E t \in tasks : ~t.done /\ t \notin tasks'

\* C11: in the rebuild, the error of one modfile's indexing is reported and
\* the loop goes on (nothing is returned, nothing is written for it), and when
\* the rebuild ends with a failing modfile in the store, every modfile whose
\* archive indexes has exactly the rows of that index, whichever order the
\* tasks finished in.
C11_FailingFileIsSkipped ==
    [][/\ TakesFailed => (pc' = "rb_next" /\ outcome' = outcome /\ db' = db /\ tx' = None)
       /\ (RbFinishes /\ \E g \in FileIds : HasFileRow(g) /\ ~FreshIndex(g).ok)
            => \A f \in FileIds :
                 (HasFileRow(f) /\ FreshIndex(f).ok)
                     => db.pack_file[f] = FreshIndex(f).val]_vars

\* modfile 11 (archive missing) and modfile 12 (no pak in the archive) have
\* been reported, and the rows of modfile 10, which had none, are about to
\* be committed
C11_Witness ==
    /\ pc = "rb_commit" /\ id = 10
    /\ db.pack_file[10] = <<>>
    /\ tx[1].pack_file[10] = FreshIndex(10).val
    /\ HasFileRow(11) /\ disk["b"] = Absent
    /\ HasFileRow(12)
    /\ modfiles = <<>> /\ tasks = {} /\ bar = 2

\* C12: when the rebuild ends, every modfile whose indexing fails has no
\* rows, even if it had rows before.
C12_FailedIndexLeavesNoRows ==
    [][RbFinishes
         => \A f \in FileIds :
              (HasFileRow(f) /\ ~FreshIndex(f).ok) => db.pack_file[f] = <<>>]_vars

\* C13: a store failure in the transaction of one modfile ends only that
\* transaction: the loop goes on with the modfiles that remain.
C13_StoreFailureContinues ==
    [][(/\ pc \in {"rb_begin", "rb_delete", "rb_insert", "rb_commit"}
        /\ outcome' = "store"
        /\ (modfiles # <<>> \/ tasks # {}))
         => (pc' = "rb_next" /\ modfiles' = modfiles /\ tasks' = tasks)]_vars

\* C14: when the rebuild ends on a store whose modfiles all have an archive
\* that indexes, every modfile has exactly the rows of a fresh index of its
\* archive, each row carrying its id, whatever rows it had before and
\* whichever order the tasks finished in.
C14_RebuildEqualsFreshIndex ==
    [][(/\ RbFinishes
        /\ \E g \in FileIds : HasFileRow(g)
        /\ \A g \in FileIds : HasFileRow(g) => FreshIndex(g).ok)
         => \A f \in FileIds :
              HasFileRow(f)
                  => /\ db.pack_file[f] = FreshIndex(f).val
                     /\ \A k \in 1..Len(db.pack_file[f]) :
                          db.pack_file[f][k].id_modfile = f]_vars

\* modfile 10 has been rebuilt over the rows it had, and the rows of
\* modfile 11, which had none, are about to be committed
C14_Witness ==
    /\ pc = "rb_commit" /\ id = 11
    /\ db.pack_file[11] = <<>>
    /\ tx[1].pack_file[11] = FreshIndex(11).val
    /\ tx[1].pack_file[11] # <<>>
    /\ HasFileRow(10) /\ ~HasFileRow(12)
    /\ FreshIndex(10).ok
    /\ db.pack_file[10] = FreshIndex(10).val
    /\ modfiles = <<>> /\ tasks = {} /\ bar = 1

\* C16: the tasks spawned and not yet taken by the coordinator are never
\* more than the available parallelism.
C16_TasksWithinParallelism == Cardinality(tasks) <= Parallelism

\* every slot is taken while a modfile still waits
C16_Witness ==
    /\ pc = "rb_next"
    /\ Cardinality(tasks) = Parallelism
    /\ modfiles # <<>>

\* C17: in the rebuild a blocking thread changes neither the store nor the
\* transaction; the store changes only by the coordinator's commit; a
\* transaction is begun only when none is open, and an open one differs from
\* the store only in the rows of the one modfile being replaced.
C17_SingleSerializedWriter ==
    [][/\ WorkerSteps => (db' = db /\ tx' = tx)
       /\ db' # db => (pc = "rb_commit" /\ tx # None /\ db' = tx[1])
       /\ tx' # tx => pc \in {"rb_begin", "rb_delete", "rb_insert", "rb_commit"}
       /\ (tx' # None /\ tx = None) => pc = "rb_begin"
       /\ tx' # None
            => tx'[1] = [db' EXCEPT !.pack_file[id'] = tx'[1].pack_file[id']]]_vars

\* a blocking thread is still running while the coordinator's transaction
\* holds uncommitted rows
C17_Witness ==
    /\ pc = "rb_insert"
    /\ tx # None /\ tx[1].pack_file[id] # <<>> /\ tx[1] # db
    /\ \E t \in tasks : ~t.done

(***************************************************************************)
(* The rebuild with a store that does not fail and a process that is not   *)
(* killed.  The coordinator is the one future main awaits and the blocking *)
(* threads are scheduled by the runtime: each keeps running while it can.  *)
(***************************************************************************)
\* the steps of the future update_pack_files_local
Coordinator ==
    \/ RbSelect
    \/ RbPrepare
    \/ RbSpawn
    \/ RbTake
    \/ RbBegin
    \/ RbDelete
    \/ RbInsert
    \/ RbInsertDone
    \/ RbCommit
    \/ RbDone

NextRebuildFair ==
    \/ UpdatePackFilesLocal
    \/ RbSelect
    \/ RbPrepare
    \/ RbSpawn
    \/ WorkerRun
    \/ RbTake
    \/ RbBegin
    \/ RbDelete
    \/ RbInsert
    \/ RbInsertDone
    \/ RbCommit
    \/ RbDone

SpecRebuildFair ==
    /\ InitRebuild
    /\ [][NextRebuildFair]_vars
    /\ WF_vars(Coordinator)
    /\ WF_vars(WorkerRun)

\* the modfile rows of the store
FileRows == {f \in FileIds : HasFileRow(f)}

\* the coordinator holds a taken result it has not yet counted
Persisting == pc \in {"rb_begin", "rb_delete", "rb_insert", "rb_commit"}

\* the modfiles of the SELECT are each waiting, spawned, being persisted or
\* counted
Accounted ==
    bar + Len(modfiles) + Cardinality(tasks) + (IF Persisting THEN 1 ELSE 0)
        = Cardinality(FileRows)

\* C20: with a store that does not fail and no panic, a rebuild that began
\* ends with Ok(()); until then each modfile row of the store is waiting,
\* spawned, being persisted or counted, one place each, and at the end the
\* progress count is the number of modfile rows.
C20_RebuildTerminatesAllCounted ==
    /\ (pc = "rb_select") ~> (pc = "idle" /\ outcome = "ok")
    /\ []((pc = "rb_next" \/ Persisting) => Accounted)
    /\ [][RbFinishes => bar = Cardinality(FileRows)]_vars

\* all three modfiles have been counted: 10 persisted, 12 reported
C20_Witness ==
    /\ pc = "rb_next" /\ modfiles = <<>> /\ tasks = {}
    /\ bar = 3
    /\ HasFileRow(10) /\ FreshIndex(10).ok /\ db.pack_file[10] = FreshIndex(10).val
    /\ HasFileRow(12) /\ ~FreshIndex(12).ok

(***************************************************************************)
(* list_files on its own: a pak with a mount point and one record, both    *)
(* relative paths of components that are ".." or a name.                   *)
(***************************************************************************)
Components == {ParentDir, <<"FSD">>}

PathsUpTo(n) == UNION {[1..k -> Components] : k \in 0..n}

InitIndex ==
    /\ db = EmptyDb
    /\ tx = None
    /\ disk = [h \in Hashes |-> Absent]
    /\ pc = "idle"
    /\ mods = <<>>
    /\ m = None
    /\ modfile = NullId
    /\ files = <<>>
    /\ modfiles = <<>>
    /\ tasks = {}
    /\ id = NullId
    /\ pack_files = <<>>
    /\ bar = 0
    /\ outcome = "none"
    /\ \E mount_point \in PathsUpTo(MaxMountLen), asset_path \in PathsUpTo(MaxAssetLen) :
         pak = [valid |-> TRUE, mount_point |-> Some(mount_point),
                records |-> <<asset_path>>]
    /\ listed = None

\* list_files(&mut file) returns
ListFiles ==
    /\ listed = None
    /\ listed' = Some(list_files(pak))
    /\ UNCHANGED <<db, tx, disk, pc, syncVars, rebuildVars, outcome, pak>>

NextIndex == ListFiles

SpecIndex == InitIndex /\ [][NextIndex]_vars

\* mount point and file name of the one record, pushed onto an empty PathBuf
Pushed == PushPath(pak.mount_point[1], pak.records[1])

\* C18: for a mount point and a record name whose concatenation starts with
\* three ".." components the path is returned and does not itself start with
\* three ".." components; for any other pair list_files fails with the
\* strip_prefix error.
C18_NormalizedLeavesPrefix ==
    listed # None
        => IF IsPrefix(ContainmentPrefix, Pushed)
           THEN /\ listed[1].ok
                /\ ~IsPrefix(ContainmentPrefix, listed[1].val[1])
           ELSE /\ ~listed[1].ok
                /\ listed[1].err = "StripPrefixError"

=============================================================================
